---- MODULE Spec2Model ----
(***************************************************************************)
(* Model of compare_ai's model/provider layer: ProviderFactory,            *)
(* ModelRegistry, Model and OpenaiProvider, of results_manager's Result    *)
(* and of the RunPrediction action.                                        *)
(*                                                                         *)
(* Spec        : the factory and the registry (construction and queries).  *)
(* SpecPredict : one predict call, item by item, against the vendor.       *)
(* SpecFactory : the factory alone, with callers that keep the returned    *)
(*               set and a providers directory that changes.               *)
(* SpecResult  : Result.save_to_file followed by Result.load_from_file.    *)
(* SpecModel   : the Model constructor and the object's read accessors.    *)
(* SpecRun     : RunPrediction construction and execute().                 *)
(* SpecReport  : validate_data_format and generate_report.                 *)
(* SpecMmlu    : MMLUDataset construction.                                 *)
(***************************************************************************)
EXTENDS Integers, Sequences, FiniteSets, TLC

VARIABLES
    impl,       \* environment: what the providers directory holds for each key
    cache,      \* functools.cache of ProviderFactory.get_supported_providers
    scans,      \* how many times the providers directory was globbed
    pc,         \* position of the ModelRegistry constructor: new, loading, ready, failed
    todo,       \* provider names still to be visited by _load_providers' for loop
    config,     \* the config argument of the running constructor
    providers,  \* ModelRegistry._providers, a dict in insertion order
    models,     \* ModelRegistry._models, a dict in insertion order
    outcome,    \* per provider key, which branch of the try block its iteration took
    ret,        \* outcome of the last completed call
    call,       \* the predict call in progress (SpecPredict)
    i,          \* index of the item the predict handler is working on
    responses,  \* the handler's local list `responses`
    inflight,   \* TRUE while a vendor call is awaiting its response
    log,        \* vendor calls issued by the running predict call, in order
    first,      \* what the process's first get_supported_providers() call returned
    res,        \* a saving Result, the file it writes and a loading Result
    made,       \* the Model constructor call under study and the object it left
    run,        \* a RunPrediction object and the execute() call on it
    report,     \* the data handed to generate_reports and the files it left
    mmlu        \* an MMLUDataset: its entries, system prompts and inputs

vars == <<impl, cache, scans, pc, todo, config, providers, models, outcome, ret,
          call, i, responses, inflight, log, first, res, made, run, report,
          mmlu>>

regVars == <<impl, cache, scans, pc, todo, config, providers, models, outcome>>
predVars == <<call, i, responses, inflight, log>>
docVars == <<report, mmlu>>
auxVars == <<first, res, made, run, docVars>>

-----------------------------------------------------------------------------
(* Bounds *)

MaxBatch == 3

-----------------------------------------------------------------------------
(* Python values *)

None == [none |-> TRUE]

NoExc == [type |-> "none"]

\* what predict hands back: a list of strings, one string, or nothing
PyList(seq) == [type |-> "list", items |-> seq]
PyStr(s) == [type |-> "str", items |-> <<s>>]
PyNone == [type |-> "none", items |-> <<>>]

\* dict in insertion order: a sequence of <<key, value>> pairs with unique keys
EmptyDict == <<>>

DictKeys(d) == {d[n][1] : n \in 1..Len(d)}

DictHas(d, k) == \E n \in 1..Len(d) : d[n][1] = k

DictGet(d, k) == d[CHOOSE n \in 1..Len(d) : d[n][1] = k][2]

\* d[k] = v : an existing key keeps its position, a new key is appended
DictSet(d, k, v) ==
    IF DictHas(d, k)
    THEN [n \in 1..Len(d) |-> IF d[n][1] = k THEN <<k, v>> ELSE d[n]]
    ELSE Append(d, <<k, v>>)

DictValues(d) == [n \in 1..Len(d) |-> d[n][2]]

SeqToSet(s) == {s[n] : n \in 1..Len(s)}

\* every order in which a for loop may visit a set
RECURSIVE Orderings(_)
Orderings(S) ==
    IF S = {} THEN {<<>>}
    ELSE UNION {{<<x>> \o p : p \in Orderings(S \ {x})} : x \in S}

-----------------------------------------------------------------------------
(* definitions.py *)

TaskType ==
    {"text_generation", "chat", "translation", "summarization",
     "text_classification", "image_classification", "object_detection",
     "image_generation", "speech_to_text", "text_to_speech",
     "audio_classification", "visual_qa", "image_captioning"}

TEXT_GENERATION == "text_generation"
VISUAL_QA == "visual_qa"
IMAGE_GENERATION == "image_generation"
IMAGE_CAPTIONING == "image_captioning"

-----------------------------------------------------------------------------
(* models.py *)

ModelCapability(task, formats) ==
    [supported_task |-> task, supported_formats |-> formats]

\* faulty variant: no isinstance check on the provider
NewModelUnchecked(model_name, provider, capability) ==
    [ok |-> TRUE,
     exc |-> NoExc,
     model |-> [model_name |-> model_name, provider |-> provider.key,
                capability |-> capability, is_model |-> TRUE]]

\* Model.__init__: the provider must be a Provider instance
NewModel(model_name, provider, capability) ==
    IF ~provider.is_provider
    THEN [ok |-> FALSE,
          exc |-> [type |-> "TypeError"],
          model |-> None]
    ELSE [ok |-> TRUE,
          exc |-> NoExc,
          model |-> [model_name |-> model_name, provider |-> provider.key,
                     capability |-> capability, is_model |-> TRUE]]

\* Model.supports_task: equality with the one bound task
SupportsTask(m, task) == task = m.capability.supported_task

\* Model.supported_task: the singleton set holding the bound task
SupportedTaskProp(m) == {m.capability.supported_task}

-----------------------------------------------------------------------------
(* providers/openai_provider.py: the catalog *)

ListAvailableModels ==
    << [model_name |-> "gpt-4", task_support |-> <<TEXT_GENERATION, VISUAL_QA>>],
       [model_name |-> "gpt-4-vision-preview", task_support |-> <<VISUAL_QA>>],
       [model_name |-> "gpt-3.5-turbo", task_support |-> <<TEXT_GENERATION>>] >>

GetSupportedFormats(task) ==
    CASE task = TEXT_GENERATION -> <<"txt", "md", "json">>
      [] task = VISUAL_QA -> <<"png", "jpg", "jpeg">>
      [] OTHER -> <<>>

\* get_models: the inner loop over task_support rebinds `capability`; the
\* append sits after it, so each catalog entry yields one Model, bound to the
\* last task the entry lists.
OpenaiGetModels(self) ==
    [n \in 1..Len(ListAvailableModels) |->
        LET entry == ListAvailableModels[n]
            task == entry.task_support[Len(entry.task_support)]
        IN  NewModel(entry.model_name, self,
                     ModelCapability(task, GetSupportedFormats(task))).model]

-----------------------------------------------------------------------------
(* The providers the directory may hold *)

ProviderKeys == {"openai", "mock", "alt"}

\* What the environment holds for a provider key:
\*   absent       no {key}_provider.py file
\*   hidden       the file's stem starts with "_"
\*   import_error the module, or a library it imports, cannot be imported
\*   no_class     the module has no {Key}Provider attribute
\*   ctor_error   the constructor raises (not ImportError, not ValueError)
\*   enum_error   get_models raises
\*   item_error   get_models returns a list whose last element is no Model
\*   ok           everything works
ThirdPartyKinds ==
    {"absent", "hidden", "import_error", "no_class", "ctor_error",
     "enum_error", "item_error", "ok"}

\* openai_provider.py is part of the repository and get_models is static
OpenaiKinds == {"import_error", "ctor_error", "ok"}

\* the second third-party provider is drawn from fewer cases
AltKinds == {"absent", "import_error", "enum_error", "ok"}

ImplChoices ==
    {f \in [ProviderKeys -> ThirdPartyKinds] :
        f["openai"] \in OpenaiKinds /\ f["alt"] \in AltKinds}

KindOf(key) == IF key \in ProviderKeys THEN impl[key] ELSE "absent"

\* self.name: OpenaiProvider sets "openai"; a provider that leaves it alone
\* keeps Provider.__init__'s ""
ProviderName(key) == IF key = "openai" THEN "openai" ELSE ""

\* keyword arguments the provider's constructor accepts
AcceptedKwargs(key) ==
    CASE key = "openai" -> {"api_key"}
      [] key = "mock" -> {"provider_name", "api_key"}
      [] OTHER -> {"api_key", "organization"}

BadItem == [is_model |-> FALSE]

\* get_models() of an instance: a status and the list it returns
GetModels(self) ==
    LET kind == KindOf(self.key)
        mock == <<NewModel("mock-model", self,
                           ModelCapability(TEXT_GENERATION, <<"txt">>)).model>>
        alt == <<NewModel("gpt-4", self,
                          ModelCapability(TEXT_GENERATION, <<"txt">>)).model,
                 NewModel("alt-model", self,
                          ModelCapability(IMAGE_CAPTIONING, <<"png">>)).model>>
        list == CASE self.key = "openai" -> OpenaiGetModels(self)
                  [] self.key = "mock" -> mock
                  [] OTHER -> alt
    IN  IF kind = "enum_error"
        THEN [ok |-> FALSE, exc |-> [type |-> "RuntimeError"], list |-> <<>>]
        ELSE IF kind = "item_error"
        THEN [ok |-> TRUE, exc |-> NoExc, list |-> Append(list, BadItem)]
        ELSE [ok |-> TRUE, exc |-> NoExc, list |-> list]

-----------------------------------------------------------------------------
(* provider_factory.py *)

\* the files PROVIDERS_DIR.glob("*_provider.py") yields, as stems
ProviderFiles ==
    {[stem_name |-> k, underscore |-> impl[k] = "hidden"] :
        k \in {x \in ProviderKeys : impl[x] # "absent"}}

\* the set comprehension of get_supported_providers
ScanDirectory ==
    {f.stem_name : f \in {g \in ProviderFiles : ~g.underscore}}

\* get_supported_providers under functools.cache: the value returned, the
\* cache and the number of directory scans after the call
EmptyCache == [filled |-> FALSE, value |-> {}]

GetSupportedProviders == IF cache.filled THEN cache.value ELSE ScanDirectory

CacheAfter == [filled |-> TRUE, value |-> GetSupportedProviders]

ScansAfter == IF cache.filled THEN scans ELSE scans + 1

\* config dicts: the keys they hold and the api_key value
ConfigDicts ==
    { [keys |-> {}, api_key |-> "none"],
      [keys |-> {"api_key"}, api_key |-> "sk-1"],
      [keys |-> {"api_key", "organization"}, api_key |-> "sk-1"] }

EmptyConfig == [keys |-> {}, api_key |-> "none"]

CreateResult(ok, exc, instance, imported, instantiated) ==
    [ok |-> ok, exc |-> exc, instance |-> instance,
     imported |-> imported, instantiated |-> instantiated]

\* provider_class(**config)
Instantiate(key, cfg) ==
    IF ~(cfg.keys \subseteq AcceptedKwargs(key))
    THEN CreateResult(FALSE, [type |-> "TypeError"], None, TRUE, FALSE)
    ELSE IF KindOf(key) = "ctor_error"
    THEN CreateResult(FALSE, [type |-> "ProviderError"], None, TRUE, FALSE)
    ELSE CreateResult(TRUE, NoExc,
                      [key |-> key, name |-> ProviderName(key),
                       api_key |-> cfg.api_key, is_provider |-> TRUE],
                      TRUE, TRUE)

\* the import and everything after it
ImportAndCreate(key, cfg) ==
    IF KindOf(key) \in {"absent", "hidden", "import_error"}
    THEN CreateResult(FALSE,
                      [type |-> "ImportError", kind |-> "missing_dependency",
                       provider |-> key],
                      None, TRUE, FALSE)
    ELSE IF KindOf(key) = "no_class"
    THEN CreateResult(FALSE, [type |-> "AttributeError"], None, TRUE, FALSE)
    ELSE Instantiate(key, cfg)

\* faulty variant: no membership test before the import
CreateProviderNoCheck(key, cfg) ==
    ImportAndCreate(key, IF cfg = None THEN EmptyConfig ELSE cfg)

\* create_provider(provider_key, config); cfg = None stands for the default
CreateProvider(key, cfg) ==
    IF key \notin GetSupportedProviders
    THEN CreateResult(FALSE,
                      [type |-> "ValueError", kind |-> "not_supported",
                       provider |-> key, supported |-> GetSupportedProviders],
                      None, FALSE, FALSE)
    ELSE ImportAndCreate(key, IF cfg = None THEN EmptyConfig ELSE cfg)

\* the except clause of is_provider_available
AvailabilityCatches(exc) == exc.type \in {"ImportError", "ValueError"}

\* is_provider_available(provider_key)
IsProviderAvailable(key) ==
    LET r == CreateProvider(key, None)
    IN  IF r.ok THEN [ok |-> TRUE, exc |-> NoExc, value |-> TRUE]
        ELSE IF AvailabilityCatches(r.exc)
        THEN [ok |-> TRUE, exc |-> NoExc, value |-> FALSE]
        ELSE [ok |-> FALSE, exc |-> r.exc, value |-> None]

-----------------------------------------------------------------------------
(* model_registry.py *)

\* the config argument: absent (None), or a dict giving `dict` to each of `keys`
NoRegistryConfig == [given |-> FALSE, keys |-> {}, dict |-> EmptyConfig]

RegistryConfigs ==
    {NoRegistryConfig,
     [given |-> TRUE, keys |-> {}, dict |-> EmptyConfig],
     [given |-> TRUE, keys |-> {"openai"},
      dict |-> [keys |-> {"api_key"}, api_key |-> "sk-1"]],
     [given |-> TRUE, keys |-> ProviderKeys,
      dict |-> [keys |-> {"api_key", "organization"}, api_key |-> "sk-1"]]}

\* (config or {}).get(provider_name, {})
ConfigGet(cfg, key) == IF key \in cfg.keys THEN cfg.dict ELSE EmptyConfig

\* _register_provider_models' loop body over an already returned list
RECURSIVE RegisterModels(_, _)
RegisterModels(mods, list) ==
    IF list = <<>> THEN [models |-> mods, exc |-> NoExc]
    ELSE IF ~Head(list).is_model
    THEN [models |-> mods, exc |-> [type |-> "AttributeError"]]
    ELSE RegisterModels(DictSet(mods, Head(list).model_name, Head(list)),
                        Tail(list))

\* the try block of _load_providers for one provider name
LoadOne(provs, mods, key, cfg) ==
    LET r == CreateProvider(key, ConfigGet(cfg, key))
    IN  IF ~r.ok
        THEN [providers |-> provs, models |-> mods, exc |-> r.exc,
              outcome |-> "create_failed"]
        ELSE
        LET provs1 == DictSet(provs, r.instance.name, r.instance)
            g == GetModels(r.instance)
        IN  IF ~g.ok
            THEN [providers |-> provs1, models |-> mods, exc |-> g.exc,
                  outcome |-> "enum_failed"]
            ELSE
            LET reg == RegisterModels(mods, g.list)
            IN  [providers |-> provs1, models |-> reg.models, exc |-> reg.exc,
                 outcome |-> IF reg.exc = NoExc THEN "loaded"
                             ELSE "register_failed"]

\* except ImportError / except Exception: every exception modelled here is
\* an Exception
RegistryCatches(exc) ==
    exc.type = "ImportError"
    \/ exc.type \in {"ValueError", "AttributeError", "TypeError",
                     "RuntimeError", "ProviderError"}

\* find_models' inner loop over one provider's models
RECURSIVE MatchModels(_, _, _)
MatchModels(list, task, acc) ==
    IF list = <<>> THEN [ok |-> TRUE, exc |-> NoExc, value |-> acc]
    ELSE IF ~Head(list).is_model
    THEN [ok |-> FALSE, exc |-> [type |-> "AttributeError"], value |-> None]
    ELSE MatchModels(Tail(list), task,
                     IF SupportsTask(Head(list), task)
                     THEN Append(acc, Head(list)) ELSE acc)

\* find_models' outer loop over self._providers.values()
RECURSIVE FindModelsFrom(_, _, _)
FindModelsFrom(insts, task, acc) ==
    IF insts = <<>> THEN [ok |-> TRUE, exc |-> NoExc, value |-> acc]
    ELSE LET g == GetModels(Head(insts))
         IN  IF ~g.ok THEN [ok |-> FALSE, exc |-> g.exc, value |-> None]
             ELSE LET m == MatchModels(g.list, task, acc)
                  IN  IF ~m.ok THEN m
                      ELSE FindModelsFrom(Tail(insts), task, m.value)

\* faulty variant: the return sits inside the outer loop, so only the first
\* provider is scanned
FindModelsFirstOnly(task) ==
    IF providers = EmptyDict
    THEN [ok |-> TRUE, exc |-> NoExc, value |-> <<>>]
    ELSE FindModelsFrom(<<DictValues(providers)[1]>>, task, <<>>)

FindModels(task) == FindModelsFrom(DictValues(providers), task, <<>>)

\* get_supported_tasks' loops
RECURSIVE TasksOf(_, _)
TasksOf(list, acc) ==
    IF list = <<>> THEN [ok |-> TRUE, exc |-> NoExc, value |-> acc]
    ELSE IF ~Head(list).is_model
    THEN [ok |-> FALSE, exc |-> [type |-> "AttributeError"], value |-> None]
    ELSE TasksOf(Tail(list), acc \cup SupportedTaskProp(Head(list)))

RECURSIVE SupportedTasksFrom(_, _)
SupportedTasksFrom(insts, acc) ==
    IF insts = <<>> THEN [ok |-> TRUE, exc |-> NoExc, value |-> acc]
    ELSE LET g == GetModels(Head(insts))
         IN  IF ~g.ok THEN [ok |-> FALSE, exc |-> g.exc, value |-> None]
             ELSE LET t == TasksOf(g.list, acc)
                  IN  IF ~t.ok THEN t
                      ELSE SupportedTasksFrom(Tail(insts), t.value)

\* faulty variant: the set is created inside the outer loop, so only the last
\* provider's tasks survive
GetSupportedTasksLastProvider ==
    IF providers = EmptyDict
    THEN [ok |-> TRUE, exc |-> NoExc, value |-> {}]
    ELSE LET vals == DictValues(providers)
             all == SupportedTasksFrom(vals, {})
         IN  IF ~all.ok THEN all
             ELSE SupportedTasksFrom(<<vals[Len(vals)]>>, {})

GetSupportedTasks == SupportedTasksFrom(DictValues(providers), {})

\* get_available_providers
GetAvailableProviders == DictKeys(providers)

-----------------------------------------------------------------------------
(* The calls a session makes on the factory and the registry *)

Ret(op, arg, ok, exc, value) ==
    [op |-> op, arg |-> arg, ok |-> ok, exc |-> exc, value |-> value]

NoRet == Ret("none", None, TRUE, NoExc, None)

NoCall == [active |-> FALSE]

\* the layers a specification does not exercise stay as they start
NoFirst == [set |-> FALSE, value |-> {}]

AuxIdle ==
    /\ first = NoFirst
    /\ res = [predictions |-> [t |-> "none"], file |-> [exists |-> FALSE],
              loaded |-> [t |-> "none"]]
    /\ made = [exists |-> FALSE]
    /\ run = [pc |-> "idle"]
    /\ report = [pc |-> "idle"]
    /\ mmlu = [pc |-> "idle"]

PredictIdle ==
    /\ call = NoCall
    /\ i = 0
    /\ responses = <<>>
    /\ inflight = FALSE
    /\ log = <<>>

InitRegistry ==
    /\ cache = EmptyCache
    /\ scans = 0
    /\ pc = "new"
    /\ todo = <<>>
    /\ config = NoRegistryConfig
    /\ providers = EmptyDict
    /\ models = EmptyDict
    /\ outcome = [k \in ProviderKeys |-> "unvisited"]

Init ==
    /\ impl \in ImplChoices
    /\ InitRegistry
    /\ ret = NoRet
    /\ PredictIdle
    /\ AuxIdle

\* names a caller may pass to the factory
CallerNames == ProviderKeys \cup {"invalid"}

\* ProviderFactory.get_supported_providers()
CallGetSupportedProviders ==
    /\ pc \in {"new", "ready"}
    /\ ret' = Ret("get_supported_providers", None, TRUE, NoExc,
                  GetSupportedProviders)
    /\ cache' = CacheAfter
    /\ scans' = ScansAfter
    /\ UNCHANGED <<impl, pc, todo, config, providers, models, outcome>>
    /\ UNCHANGED predVars
    /\ UNCHANGED auxVars

\* ProviderFactory.create_provider(name, cfg)
CallCreateProvider ==
    /\ pc \in {"new", "ready"}
    /\ \E name \in CallerNames, cfg \in ConfigDicts \cup {None} :
          LET r == CreateProvider(name, cfg)
          IN  ret' = Ret("create_provider", <<name, cfg>>, r.ok, r.exc, r)
    /\ cache' = CacheAfter
    /\ scans' = ScansAfter
    /\ UNCHANGED <<impl, pc, todo, config, providers, models, outcome>>
    /\ UNCHANGED predVars
    /\ UNCHANGED auxVars

\* ProviderFactory.is_provider_available(name)
CallIsProviderAvailable ==
    /\ pc \in {"new", "ready"}
    /\ \E name \in CallerNames :
          LET r == IsProviderAvailable(name)
          IN  ret' = Ret("is_provider_available", name, r.ok, r.exc, r.value)
    /\ cache' = CacheAfter
    /\ scans' = ScansAfter
    /\ UNCHANGED <<impl, pc, todo, config, providers, models, outcome>>
    /\ UNCHANGED predVars
    /\ UNCHANGED auxVars

\* ModelRegistry(cfg): __init__ up to the head of _load_providers' for loop
Construct ==
    /\ pc = "new"
    /\ \E cfg \in RegistryConfigs, order \in Orderings(GetSupportedProviders) :
          /\ config' = IF order = <<>> THEN NoRegistryConfig ELSE cfg
          /\ todo' = order
          /\ pc' = IF order = <<>> THEN "ready" ELSE "loading"
          /\ ret' = IF order = <<>>
                    THEN Ret("ModelRegistry", None, TRUE, NoExc, None)
                    ELSE NoRet
    /\ cache' = CacheAfter
    /\ scans' = ScansAfter
    /\ providers' = EmptyDict
    /\ models' = EmptyDict
    /\ UNCHANGED <<impl, outcome>>
    /\ UNCHANGED predVars
    /\ UNCHANGED auxVars

\* one iteration of _load_providers' for loop
LoadProvider ==
    /\ pc = "loading"
    /\ LET key == Head(todo)
           r == LoadOne(providers, models, key, config)
           uncaught == r.exc # NoExc /\ ~RegistryCatches(r.exc)
       IN  /\ providers' = r.providers
           /\ models' = r.models
           /\ outcome' = [outcome EXCEPT ![key] = r.outcome]
           /\ todo' = Tail(todo)
           /\ pc' = IF uncaught THEN "failed"
                    ELSE IF Tail(todo) = <<>> THEN "ready" ELSE "loading"
           /\ ret' = IF uncaught
                     THEN Ret("ModelRegistry", None, FALSE, r.exc, None)
                     ELSE IF Tail(todo) = <<>>
                     THEN Ret("ModelRegistry", None, TRUE, NoExc, None)
                     ELSE NoRet
           /\ config' = IF uncaught \/ Tail(todo) = <<>>
                        THEN NoRegistryConfig ELSE config
    /\ UNCHANGED <<impl, cache, scans>>
    /\ UNCHANGED predVars
    /\ UNCHANGED auxVars

\* registry.get_available_providers()
CallGetAvailableProviders ==
    /\ pc = "ready"
    /\ ret' = Ret("get_available_providers", None, TRUE, NoExc,
                  GetAvailableProviders)
    /\ UNCHANGED regVars
    /\ UNCHANGED predVars
    /\ UNCHANGED auxVars

\* registry.find_models(task)
CallFindModels ==
    /\ pc = "ready"
    /\ \E task \in TaskType :
          LET r == FindModels(task)
          IN  ret' = Ret("find_models", task, r.ok, r.exc, r.value)
    /\ UNCHANGED regVars
    /\ UNCHANGED predVars
    /\ UNCHANGED auxVars

\* registry.get_supported_tasks()
CallGetSupportedTasks ==
    /\ pc = "ready"
    /\ LET r == GetSupportedTasks
       IN  ret' = Ret("get_supported_tasks", None, r.ok, r.exc, r.value)
    /\ UNCHANGED regVars
    /\ UNCHANGED predVars
    /\ UNCHANGED auxVars

\* faulty variant: get_available_providers hands out the registry's own
\* mapping instead of a copy of its keys
ReturnsProvidersItself(op) == op = "get_available_providers"

\* whether the object a query returns is one the registry keeps: each query
\* builds a new set or list (set(...), matching_models = [], tasks = set())
ReturnsInternalObject(op) == FALSE

\* the caller empties the set or list a query returned
MutateReturned ==
    /\ pc = "ready"
    /\ ret.ok
    /\ ret.op \in {"get_available_providers", "find_models",
                   "get_supported_tasks"}
    /\ ret' = Ret("mutated", ret.op, TRUE, NoExc, None)
    /\ providers' = IF ReturnsInternalObject(ret.op) THEN EmptyDict
                    ELSE providers
    /\ UNCHANGED <<impl, cache, scans, pc, todo, config, models, outcome>>
    /\ UNCHANGED predVars
    /\ UNCHANGED auxVars

Next ==
    \/ CallGetSupportedProviders
    \/ CallCreateProvider
    \/ CallIsProviderAvailable
    \/ Construct
    \/ LoadProvider
    \/ CallGetAvailableProviders
    \/ CallFindModels
    \/ CallGetSupportedTasks
    \/ MutateReturned

Spec == Init /\ [][Next]_vars

-----------------------------------------------------------------------------
(* Inputs of predict *)

\* An input item: a str, or a dict with a "messages" key (absent; the empty
\* list; one message whose content is a string; one message whose content is
\* a list of parts) and the flat keys "text" and "image".
Item(type, messages, text_part, image_part, text, image) ==
    [type |-> type, messages |-> messages, text_part |-> text_part,
     image_part |-> image_part, text |-> text, image |-> image]

StrItem == Item("str", "absent", FALSE, FALSE, FALSE, FALSE)
EmptyItem == Item("dict", "absent", FALSE, FALSE, FALSE, FALSE)
EmptyMessages == Item("dict", "empty", FALSE, FALSE, FALSE, FALSE)
ChatItem == Item("dict", "chat", FALSE, FALSE, FALSE, FALSE)
PartsFull == Item("dict", "parts", TRUE, TRUE, FALSE, FALSE)
PartsNoImage == Item("dict", "parts", TRUE, FALSE, FALSE, FALSE)
FlatFull == Item("dict", "absent", FALSE, FALSE, TRUE, TRUE)
FlatNoImage == Item("dict", "absent", FALSE, FALSE, TRUE, FALSE)

Items ==
    {StrItem, EmptyItem, EmptyMessages, ChatItem, PartsFull, PartsNoImage,
     FlatFull, FlatNoImage}

ItemLists == UNION {[1..n -> Items] : n \in 0..MaxBatch}

\* what a caller hands to Model.predict: one item, a list or a tuple of items
InputData ==
    {[kind |-> "item", items |-> <<x>>] : x \in Items}
    \cup {[kind |-> "list", items |-> l] : l \in ItemLists}
    \cup {[kind |-> "tuple", items |-> <<x>>] : x \in {ChatItem, PartsFull}}

\* the text the vendor may answer with
Contents == {"A", "B"}

\* how a vendor call may end: a response with a first choice, a response with
\* no choice, or an exception out of the client
VendorOutcomes ==
    {[kind |-> "ok", content |-> c] : c \in Contents}
    \cup {[kind |-> "no_choices", content |-> "none"],
          [kind |-> "transport_error", content |-> "none"]}

-----------------------------------------------------------------------------
(* providers/openai_provider.py: predict *)

Shaped(ok, exc, payload) == [ok |-> ok, exc |-> exc, payload |-> payload]

\* _predict_text, up to the vendor call: messages = input_data.get("messages", [])
ShapeText(model_name, item) ==
    IF item.type # "dict"
    THEN Shaped(FALSE, [type |-> "AttributeError"], None)
    ELSE Shaped(TRUE, NoExc,
                [model |-> model_name,
                 messages |-> IF item.messages = "absent" THEN "empty"
                              ELSE item.messages,
                 from |-> item])

\* _predict_visual, up to the vendor call
ShapeVisual(model_name, item) ==
    IF item.type # "dict"
    THEN Shaped(FALSE, [type |-> "AttributeError"], None)
    ELSE IF item.messages = "empty"
    THEN Shaped(FALSE, [type |-> "IndexError"], None)
    ELSE IF item.messages = "chat"
    THEN Shaped(FALSE, [type |-> "TypeError"], None)
    ELSE LET text == IF item.messages = "parts" THEN item.text_part
                     ELSE item.text
             image == IF item.messages = "parts" THEN item.image_part
                      ELSE item.image
         IN  IF ~image
             THEN Shaped(FALSE,
                         [type |-> "ValueError", kind |-> "image_required"],
                         None)
             ELSE Shaped(TRUE, NoExc,
                         [model |-> model_name,
                          messages |-> IF text THEN "text+image" ELSE "image",
                          from |-> item])

\* faulty variant: every task but visual QA falls through to the text handler
HandlerDefaultText(task) == IF task = VISUAL_QA THEN "visual" ELSE "text"

\* faulty variant: the visual QA branch is missing from the dispatch
HandlerTextOnly(task) == IF task = TEXT_GENERATION THEN "text" ELSE "none"

\* predict's dispatch on the task
Handler(task) ==
    IF task = TEXT_GENERATION THEN "text"
    ELSE IF task = VISUAL_QA THEN "visual"
    ELSE "none"

ShapeRequest(handler, model_name, item) ==
    IF handler = "text" THEN ShapeText(model_name, item)
    ELSE ShapeVisual(model_name, item)

\* faulty variant: the newest response goes to the front
PrependResponse(rs, content) == <<content>> \o rs

\* responses.append(response.choices[0].message.content)
AppendResponse(rs, content) == Append(rs, content)

\* tasks a caller may pass: the enumeration and one value outside it
CallerTasks == TaskType \cup {"UNSUPPORTED_TASK"}

CallerModelNames == {"gpt-3.5-turbo"}

\* the provider instance whose predict is called
OpenaiInstance ==
    [key |-> "openai", name |-> "openai", api_key |-> "sk-1",
     is_provider |-> TRUE]

\* the raise at the end of predict
TaskUnsupported(task, model_name) ==
    [type |-> "ValueError", kind |-> "task_unsupported", task |-> task,
     model |-> model_name]

\* faulty variant: the handler swallows the exception and returns what it
\* has collected so far
PropagateSwallowed(c, exc) ==
    Ret(c.entry, c, TRUE, NoExc,
        IF c.entry = "model.predict" /\ c.input.kind # "list"
        THEN PyNone ELSE PyList(responses))

\* an exception leaving a handler: nothing catches it, in the provider or in
\* Model.predict, so the call ends with it and returns no value
Propagate(c, exc) == Ret(c.entry, c, FALSE, exc, PyNone)

-----------------------------------------------------------------------------
(* models.py: Model.predict *)

TupleItem == Item("tuple", "absent", FALSE, FALSE, FALSE, FALSE)

\* is_single_input = not isinstance(input_data, list)
IsSingleInput(d) == d.kind # "list"

\* inputs = [input_data] if is_single_input else input_data
NormalizeInputs(d) ==
    IF IsSingleInput(d)
    THEN IF d.kind = "tuple" THEN <<TupleItem>> ELSE <<d.items[1]>>
    ELSE d.items

\* faulty variant: the list is returned as it is, also for a single input
UnnormalizeAlwaysList(d, results) ==
    [ok |-> TRUE, exc |-> NoExc, value |-> PyList(results)]

\* results[0] if is_single_input else results
Unnormalize(d, results) ==
    IF IsSingleInput(d)
    THEN IF results = <<>>
         THEN [ok |-> FALSE, exc |-> [type |-> "IndexError"], value |-> PyNone]
         ELSE [ok |-> TRUE, exc |-> NoExc, value |-> PyStr(results[1])]
    ELSE [ok |-> TRUE, exc |-> NoExc, value |-> PyList(results)]

\* the arguments of self._provider.predict(self.model_name, inputs, task)
ProviderArgs(m, d) ==
    [model_name |-> m.model_name, inputs |-> NormalizeInputs(d),
     task |-> m.capability.supported_task]

-----------------------------------------------------------------------------
(* One predict call *)

CallRecord(entry, model, input, args) ==
    [active |-> TRUE, entry |-> entry, model |-> model, input |-> input,
     model_name |-> args.model_name, inputs |-> args.inputs,
     task |-> args.task]

PredictReset ==
    /\ call' = NoCall
    /\ i' = 0
    /\ responses' = <<>>
    /\ inflight' = FALSE

\* OpenaiProvider.predict is entered with the call record c
BeginPredict(c) ==
    IF Handler(c.task) = "none"
    THEN /\ ret' = Propagate(c, TaskUnsupported(c.task, c.model_name))
         /\ PredictReset
         /\ log' = <<>>
    ELSE /\ ret' = NoRet
         /\ call' = c
         /\ i' = 1
         /\ responses' = <<>>
         /\ inflight' = FALSE
         /\ log' = <<>>

\* predict keeps everything in locals, so a call leaves nothing behind for
\* the next one: a behaviour of SpecPredict is one call, from a fresh session
FreshSession == ~call.active /\ ret.op = "none" /\ log = <<>>

\* a caller invokes OpenaiProvider.predict(model_name, inputs, task)
StartProviderPredict ==
    /\ FreshSession
    /\ \E model_name \in CallerModelNames, task \in CallerTasks,
          inputs \in ItemLists :
          BeginPredict(CallRecord("provider.predict", None,
                                  [kind |-> "list", items |-> inputs],
                                  [model_name |-> model_name,
                                   inputs |-> inputs, task |-> task]))
    /\ UNCHANGED regVars
    /\ UNCHANGED auxVars

\* a caller invokes predict(input_data) on a Model of OpenaiProvider.get_models()
StartModelPredict ==
    /\ FreshSession
    /\ \E m \in SeqToSet(OpenaiGetModels(OpenaiInstance)), d \in InputData :
          BeginPredict(CallRecord("model.predict", m, d, ProviderArgs(m, d)))
    /\ UNCHANGED regVars
    /\ UNCHANGED auxVars

\* faulty variant: the next request goes out without waiting for the
\* response to the previous one
IssueCallWithoutWaiting ==
    /\ call.active
    /\ i <= Len(call.inputs)
    /\ LET shaped == ShapeRequest(Handler(call.task), call.model_name,
                                  call.inputs[i])
       IN  IF shaped.ok
           THEN /\ log' = Append(log, [item |-> i,
                                       handler |-> Handler(call.task),
                                       payload |-> shaped.payload,
                                       outcome |-> "pending",
                                       content |-> "none"])
                /\ inflight' = TRUE
                /\ UNCHANGED <<call, i, responses, ret>>
           ELSE /\ ret' = Propagate(call, shaped.exc)
                /\ PredictReset
                /\ UNCHANGED log
    /\ UNCHANGED regVars
    /\ UNCHANGED auxVars

\* the handler's loop body up to and including the vendor call for item i
IssueCall ==
    /\ call.active
    /\ ~inflight
    /\ i <= Len(call.inputs)
    /\ LET shaped == ShapeRequest(Handler(call.task), call.model_name,
                                  call.inputs[i])
       IN  IF shaped.ok
           THEN /\ log' = Append(log, [item |-> i,
                                       handler |-> Handler(call.task),
                                       payload |-> shaped.payload,
                                       outcome |-> "pending",
                                       content |-> "none"])
                /\ inflight' = TRUE
                /\ UNCHANGED <<call, i, responses, ret>>
           ELSE /\ ret' = Propagate(call, shaped.exc)
                /\ PredictReset
                /\ UNCHANGED log
    /\ UNCHANGED regVars
    /\ UNCHANGED auxVars

\* faulty variant: a vendor call that fails is skipped and the loop goes on
\* with the next item
RespondContinueOnError ==
    /\ call.active
    /\ inflight
    /\ \E o \in VendorOutcomes :
          /\ log' = [log EXCEPT ![Len(log)].outcome = o.kind,
                                ![Len(log)].content = o.content]
          /\ responses' = IF o.kind = "ok"
                          THEN AppendResponse(responses, o.content)
                          ELSE responses
          /\ i' = i + 1
          /\ inflight' = FALSE
          /\ UNCHANGED <<call, ret>>
    /\ UNCHANGED regVars
    /\ UNCHANGED auxVars

\* the vendor call for item i ends and the loop body finishes
Respond ==
    /\ call.active
    /\ inflight
    /\ \E o \in VendorOutcomes :
          /\ log' = [log EXCEPT ![Len(log)].outcome = o.kind,
                                ![Len(log)].content = o.content]
          /\ IF o.kind = "ok"
             THEN /\ responses' = AppendResponse(responses, o.content)
                  /\ i' = i + 1
                  /\ inflight' = FALSE
                  /\ UNCHANGED <<call, ret>>
             ELSE /\ ret' = Propagate(call,
                                      IF o.kind = "no_choices"
                                      THEN [type |-> "IndexError"]
                                      ELSE [type |-> "APIError"])
                  /\ PredictReset
    /\ UNCHANGED regVars
    /\ UNCHANGED auxVars

\* the handler returns `responses`; Model.predict un-normalizes them
Return ==
    /\ call.active
    /\ ~inflight
    /\ i > Len(call.inputs)
    /\ IF call.entry = "model.predict"
       THEN LET u == Unnormalize(call.input, responses)
            IN  ret' = Ret(call.entry, call, u.ok, u.exc, u.value)
       ELSE ret' = Ret(call.entry, call, TRUE, NoExc, PyList(responses))
    /\ PredictReset
    /\ UNCHANGED log
    /\ UNCHANGED regVars
    /\ UNCHANGED auxVars

\* a caller invokes OpenaiProvider.get_models()
CallGetModels ==
    /\ FreshSession
    /\ ret' = Ret("get_models", None, TRUE, NoExc,
                  OpenaiGetModels(OpenaiInstance))
    /\ UNCHANGED predVars
    /\ UNCHANGED regVars
    /\ UNCHANGED auxVars

InitPredict ==
    /\ impl = [k \in ProviderKeys |-> "ok"]
    /\ InitRegistry
    /\ ret = NoRet
    /\ PredictIdle
    /\ AuxIdle

NextPredict ==
    \/ StartProviderPredict
    \/ StartModelPredict
    \/ IssueCall
    \/ Respond
    \/ Return
    \/ CallGetModels

SpecPredict == InitPredict /\ [][NextPredict]_vars

-----------------------------------------------------------------------------
(* provider_factory.py, seen by callers that keep what it returns *)

\* the first call of the process fills `first`; every call goes through the
\* same functools.cache entry
FirstAfter ==
    IF first.set THEN first ELSE [set |-> TRUE, value |-> GetSupportedProviders]

\* ProviderFactory.get_supported_providers()
FactoryGetSupportedProviders ==
    /\ ret' = Ret("get_supported_providers", None, TRUE, NoExc,
                  GetSupportedProviders)
    /\ cache' = CacheAfter
    /\ scans' = ScansAfter
    /\ first' = FirstAfter
    /\ UNCHANGED <<impl, pc, todo, config, providers, models, outcome>>
    /\ UNCHANGED <<predVars, docVars, res, made, run>>

\* ProviderFactory.create_provider(name, cfg), which asks
\* get_supported_providers() first
FactoryCreateProvider ==
    /\ \E name \in CallerNames, cfg \in ConfigDicts \cup {None} :
          LET r == CreateProvider(name, cfg)
          IN  ret' = Ret("create_provider", <<name, cfg>>, r.ok, r.exc, r)
    /\ cache' = CacheAfter
    /\ scans' = ScansAfter
    /\ first' = FirstAfter
    /\ UNCHANGED <<impl, pc, todo, config, providers, models, outcome>>
    /\ UNCHANGED <<predVars, docVars, res, made, run>>

\* the caller that received the set adds a name to it or discards one; the
\* set is the object the cache holds
MutateReturnedSet ==
    /\ ret.op \in {"get_supported_providers", "set_mutated"}
    /\ \E name \in CallerNames :
          LET changed == IF name \in cache.value
                         THEN cache.value \ {name}
                         ELSE cache.value \cup {name}
          IN  /\ cache' = [cache EXCEPT !.value = changed]
              /\ ret' = Ret("set_mutated", name, TRUE, NoExc, changed)
    /\ UNCHANGED <<impl, scans, pc, todo, config, providers, models, outcome>>
    /\ UNCHANGED <<predVars, docVars, first, res, made, run>>

\* a third-party provider file is added to the directory or removed from it
DirectoryChanges ==
    /\ \E key \in ProviderKeys \ {"openai"} :
          impl' = [impl EXCEPT ![key] = IF impl[key] = "absent"
                                        THEN "ok" ELSE "absent"]
    /\ UNCHANGED <<cache, scans, pc, todo, config, providers, models, outcome>>
    /\ UNCHANGED <<ret, predVars, auxVars>>

InitFactory ==
    /\ impl \in {f \in ImplChoices : \A k \in ProviderKeys : f[k] \in {"absent", "ok"}}
    /\ InitRegistry
    /\ ret = NoRet
    /\ PredictIdle
    /\ AuxIdle

NextFactory ==
    \/ FactoryGetSupportedProviders
    \/ FactoryCreateProvider
    \/ MutateReturnedSet
    \/ DirectoryChanges

SpecFactory == InitFactory /\ [][NextFactory]_vars

-----------------------------------------------------------------------------
(* results_manager.py *)

\* longest list, tuple or dict among the values handed to Result
MaxItems == 2

\* Python values carry their type in t: "none", "bool" (field b), "int" (n),
\* "str" (s), "list" and "tuple" (items), "dict" (pairs, in insertion order)
\* and "set", a type json.dump has no encoding for
PText(s) == [t |-> "str", s |-> s]
PSeq(t, items) == [t |-> t, items |-> items]
PDict(pairs) == [t |-> "dict", pairs |-> pairs]

SeqsOver(S, n) == UNION {[1..k -> S] : k \in 0..n}

\* the values Result(...) is constructed with: atoms, lists and tuples of
\* atoms, dicts of atoms under two str keys and an int key (pairwise unequal
\* in Python), and a list or a dict holding one of those containers
PyData ==
    LET atoms == {[t |-> "none"], [t |-> "bool", b |-> TRUE],
                  [t |-> "int", n |-> 1], PText("a"), [t |-> "set"]}
        keys == {PText("a"), PText("1"), [t |-> "int", n |-> 1]}
        dicts == {PDict(pairs) : pairs \in
                    {p \in SeqsOver(keys \X atoms, MaxItems) :
                        \A m, n \in 1..Len(p) : m # n => p[m][1] # p[n][1]}}
        flat == {PSeq(t, items) : t \in {"list", "tuple"},
                                  items \in SeqsOver(atoms, MaxItems)}
                    \cup dicts
        nested == {PSeq("list", <<x>>) : x \in flat}
                    \cup {PDict(<<<<PText("a"), x>>>>) : x \in flat}
    IN  atoms \cup flat \cup nested

\* JSON documents carry their kind in j: "null", "bool" (b), "number" (n),
\* "string" (s), "array" (items) and "object" (members, name and value)

\* the decimal text of a non-negative int
RECURSIVE IntToStr(_)
IntToStr(n) ==
    LET digits == <<"0", "1", "2", "3", "4", "5", "6", "7", "8", "9">>
    IN  IF n < 10 THEN digits[n + 1]
        ELSE IntToStr(n \div 10) \o digits[(n % 10) + 1]

\* json.dump writes every dict key as a string
KeyToStr(k) ==
    CASE k.t = "str" -> k.s
      [] k.t = "int" -> IntToStr(k.n)
      [] k.t = "bool" -> IF k.b THEN "true" ELSE "false"
      [] k.t = "none" -> "null"

RECURSIVE Serializable(_)
Serializable(v) ==
    CASE v.t \in {"none", "bool", "int", "str"} -> TRUE
      [] v.t \in {"list", "tuple"} ->
            \A n \in 1..Len(v.items) : Serializable(v.items[n])
      [] v.t = "dict" ->
            \A n \in 1..Len(v.pairs) :
                /\ v.pairs[n][1].t \in {"str", "int", "bool", "none"}
                /\ Serializable(v.pairs[n][2])
      [] OTHER -> FALSE

\* json.dump: lists and tuples both become arrays, dicts become objects
RECURSIVE Encode(_)
Encode(v) ==
    CASE v.t = "none" -> [j |-> "null"]
      [] v.t = "bool" -> [j |-> "bool", b |-> v.b]
      [] v.t = "int" -> [j |-> "number", n |-> v.n]
      [] v.t = "str" -> [j |-> "string", s |-> v.s]
      [] v.t \in {"list", "tuple"} ->
            [j |-> "array",
             items |-> [n \in 1..Len(v.items) |-> Encode(v.items[n])]]
      [] v.t = "dict" ->
            [j |-> "object",
             members |-> [n \in 1..Len(v.pairs) |->
                            <<KeyToStr(v.pairs[n][1]), Encode(v.pairs[n][2])>>]]

\* json.load: arrays become lists, objects become dicts with str keys; a
\* repeated member name overwrites the earlier value
RECURSIVE Decode(_)
RECURSIVE DecodeMembers(_, _)
DecodeMembers(members, acc) ==
    IF members = <<>> THEN acc
    ELSE DecodeMembers(Tail(members),
                       DictSet(acc, PText(Head(members)[1]),
                               Decode(Head(members)[2])))

Decode(doc) ==
    CASE doc.j = "null" -> [t |-> "none"]
      [] doc.j = "bool" -> [t |-> "bool", b |-> doc.b]
      [] doc.j = "number" -> [t |-> "int", n |-> doc.n]
      [] doc.j = "string" -> PText(doc.s)
      [] doc.j = "array" ->
            PSeq("list", [n \in 1..Len(doc.items) |-> Decode(doc.items[n])])
      [] doc.j = "object" -> PDict(DecodeMembers(doc.members, <<>>))

\* Result.save_to_file; when json.dump raises, open(path, 'w') has truncated
\* the file and what was written is no JSON document
SaveToFile(predictions) ==
    IF Serializable(predictions)
    THEN [ok |-> TRUE, exc |-> NoExc,
          file |-> [exists |-> TRUE, valid |-> TRUE, doc |-> Encode(predictions)]]
    ELSE [ok |-> FALSE, exc |-> [type |-> "TypeError"],
          file |-> [exists |-> TRUE, valid |-> FALSE]]

\* faulty variant: the loaded value is bound to a local name only
LoadFromFileLocalOnly(predictions, file) ==
    IF ~file.exists
    THEN [ok |-> FALSE, exc |-> [type |-> "FileNotFoundError"],
          predictions |-> predictions]
    ELSE IF ~file.valid
    THEN [ok |-> FALSE, exc |-> [type |-> "JSONDecodeError"],
          predictions |-> predictions]
    ELSE [ok |-> TRUE, exc |-> NoExc, predictions |-> predictions]

\* Result.load_from_file
LoadFromFile(predictions, file) ==
    IF ~file.exists
    THEN [ok |-> FALSE, exc |-> [type |-> "FileNotFoundError"],
          predictions |-> predictions]
    ELSE IF ~file.valid
    THEN [ok |-> FALSE, exc |-> [type |-> "JSONDecodeError"],
          predictions |-> predictions]
    ELSE [ok |-> TRUE, exc |-> NoExc, predictions |-> Decode(file.doc)]

\* Result(data).save_to_file(path)
CallSaveToFile ==
    /\ LET r == SaveToFile(res.predictions)
       IN  /\ res' = [res EXCEPT !.file = r.file]
           /\ ret' = Ret("save_to_file", None, r.ok, r.exc, None)
    /\ UNCHANGED <<regVars, predVars, docVars, first, made, run>>

\* Result(None).load_from_file(path), on a second Result
CallLoadFromFile ==
    /\ LET r == LoadFromFile(res.loaded, res.file)
       IN  /\ res' = [res EXCEPT !.loaded = r.predictions]
           /\ ret' = Ret("load_from_file", None, r.ok, r.exc, None)
    /\ UNCHANGED <<regVars, predVars, docVars, first, made, run>>

InitResult ==
    /\ impl = [k \in ProviderKeys |-> "ok"]
    /\ InitRegistry
    /\ ret = NoRet
    /\ PredictIdle
    /\ first = NoFirst
    /\ made = [exists |-> FALSE]
    /\ run = [pc |-> "idle"]
    /\ report = [pc |-> "idle"]
    /\ mmlu = [pc |-> "idle"]
    /\ res \in {[predictions |-> d, file |-> [exists |-> FALSE],
                  loaded |-> [t |-> "none"]] : d \in PyData}

NextResult ==
    \/ CallSaveToFile
    \/ CallLoadFromFile

SpecResult == InitResult /\ [][NextResult]_vars

-----------------------------------------------------------------------------
(* models.py: constructing a Model and reading it *)

\* the capability argument left out of the call
Omitted == [omitted |-> TRUE]

\* a str handed over where the Provider instance belongs
NotAProvider ==
    [key |-> "openai", name |-> "openai", api_key |-> "none",
     is_provider |-> FALSE]

\* ModelCapability is a plain dataclass: any value is accepted for
\* supported_task, a TaskType member or not
CapabilityArgs ==
    {ModelCapability(task, formats) :
        task \in TaskType \cup {"not_a_task"}, formats \in {<<>>, <<"txt">>}}
        \cup {None, Omitted}

\* Model(model_name, provider, capability): the call fails on a missing
\* positional argument before __init__ runs
ConstructModel(model_name, provider, capability) ==
    IF capability = Omitted
    THEN [ok |-> FALSE, exc |-> [type |-> "TypeError"], model |-> None]
    ELSE NewModel(model_name, provider, capability)

\* reading an attribute of the capability: None has none
CapabilityAttr(m, value) ==
    IF m.capability = None
    THEN [ok |-> FALSE, exc |-> [type |-> "AttributeError"], value |-> None]
    ELSE [ok |-> TRUE, exc |-> NoExc, value |-> value]

\* a caller evaluates Model(model_name, provider, capability)
CallModel ==
    /\ ~made.exists
    /\ ret.op = "none"
    /\ \E model_name \in {"gpt-4", "m"},
          provider \in {OpenaiInstance, NotAProvider},
          capability \in CapabilityArgs :
          LET args == [model_name |-> model_name, provider |-> provider,
                       capability |-> capability]
              r == ConstructModel(model_name, provider, capability)
          IN  /\ ret' = Ret("Model", args, r.ok, r.exc, None)
              /\ made' = [exists |-> r.ok, args |-> args, model |-> r.model]
    /\ UNCHANGED <<regVars, predVars, docVars, first, res, run>>

\* model.supports_task(task)
CallSupportsTask ==
    /\ made.exists
    /\ \E task \in TaskType :
          LET r == CapabilityAttr(made.model,
                                  IF made.model.capability = None THEN FALSE
                                  ELSE SupportsTask(made.model, task))
          IN  ret' = Ret("supports_task", task, r.ok, r.exc, r.value)
    /\ UNCHANGED <<regVars, predVars, auxVars>>

\* model.supported_task
CallSupportedTask ==
    /\ made.exists
    /\ LET r == CapabilityAttr(made.model,
                               IF made.model.capability = None THEN {}
                               ELSE SupportedTaskProp(made.model))
       IN  ret' = Ret("supported_task", None, r.ok, r.exc, r.value)
    /\ UNCHANGED <<regVars, predVars, auxVars>>

\* model.get_supported_formats()
CallGetSupportedFormats ==
    /\ made.exists
    /\ LET r == CapabilityAttr(made.model,
                               IF made.model.capability = None THEN <<>>
                               ELSE made.model.capability.supported_formats)
       IN  ret' = Ret("get_supported_formats", None, r.ok, r.exc, r.value)
    /\ UNCHANGED <<regVars, predVars, auxVars>>

\* model.model_name = ..., model.provider = ..., model.capability = ...:
\* the properties have no setter
CallSetAttribute ==
    /\ made.exists
    /\ \E attr \in {"model_name", "provider", "capability"} :
          ret' = Ret("setattr", attr, FALSE, [type |-> "AttributeError"], None)
    /\ UNCHANGED <<regVars, predVars, auxVars>>

\* the caller assigns supported_task on the capability object it passed; the
\* dataclass is not frozen and the Model holds the same object
MutateCapability ==
    /\ made.exists
    /\ made.model.capability # None
    /\ \E task \in {TEXT_GENERATION, "not_a_task"} :
          LET changed == [made.model.capability EXCEPT !.supported_task = task]
          IN  /\ made' = [made EXCEPT !.args.capability = changed,
                                      !.model.capability = changed]
              /\ ret' = Ret("capability_mutated", task, TRUE, NoExc, None)
    /\ UNCHANGED <<regVars, predVars, docVars, first, res, run>>

InitModel ==
    /\ impl = [k \in ProviderKeys |-> "ok"]
    /\ InitRegistry
    /\ ret = NoRet
    /\ PredictIdle
    /\ AuxIdle

NextModel ==
    \/ CallModel
    \/ CallSupportsTask
    \/ CallSupportedTask
    \/ CallGetSupportedFormats
    \/ CallSetAttribute
    \/ MutateCapability

SpecModel == InitModel /\ [][NextModel]_vars

-----------------------------------------------------------------------------
(* actions/run_predictions.py *)

\* RunPrediction.MODEL_CALLERS: the model types that have a caller class
MODEL_CALLERS == {"openai", "anthropic"}

\* the HTTP exchange as requests.post and response.json see it: a response
\* with its json() value, a RequestException with its str(), or a body that
\* is no JSON; whether the error of response.json() is a RequestException
\* depends on the installed requests version
HttpOutcomes ==
    {[kind |-> "ok", json |-> j] : j \in {"json-1", "json-2"}}
        \cup {[kind |-> "request_exception", message |-> m] :
                 m \in {"API Error", "timeout"}}
        \cup {[kind |-> "json_error", is_request_exception |-> b] : b \in BOOLEAN}

\* the json= and headers= arguments of the caller classes
RequestBody(model_type, model_name, data) ==
    [model |-> model_name,
     key |-> IF model_type = "openai" THEN "messages" ELSE "prompt",
     value |-> data]

RequestHeaders(model_type, api_key) ==
    [name |-> IF model_type = "openai" THEN "Authorization" ELSE "x-api-key",
     value |-> IF model_type = "openai" THEN "Bearer " \o api_key ELSE api_key]

\* Result(predictions)
Result(predictions) == [is_result |-> TRUE, predictions |-> predictions]

\* faulty variant: the except clause re-raises what it caught
ExecuteOutcomeUnwrapped(o) ==
    CASE o.kind = "ok" ->
            [ok |-> TRUE, exc |-> NoExc, value |-> Result(o.json)]
      [] o.kind = "request_exception" ->
            [ok |-> FALSE,
             exc |-> [type |-> "RequestException", message |-> o.message],
             value |-> None]
      [] o.kind = "json_error" ->
            [ok |-> FALSE,
             exc |-> [type |-> "JSONDecodeError", message |-> "Expecting value"],
             value |-> None]

\* the tail of execute: the try block around call_model and the return
ExecuteOutcome(o) ==
    CASE o.kind = "ok" ->
            [ok |-> TRUE, exc |-> NoExc, value |-> Result(o.json)]
      [] o.kind = "request_exception" ->
            [ok |-> FALSE,
             exc |-> [type |-> "RuntimeError",
                      message |-> "Error calling model endpoint: " \o o.message],
             value |-> None]
      [] o.kind = "json_error" ->
            IF o.is_request_exception
            THEN [ok |-> FALSE,
                  exc |-> [type |-> "RuntimeError",
                           message |-> "Error calling model endpoint: "
                                           \o "Expecting value"],
                  value |-> None]
            ELSE [ok |-> FALSE,
                  exc |-> [type |-> "JSONDecodeError",
                           message |-> "Expecting value"],
                  value |-> None]

RunStart(has_result_name) ==
    [pc |-> "start", has_result_name |-> has_result_name,
     model_type |-> "none", payload |-> "none", endpoint |-> "none",
     configured |-> FALSE, test_data |-> "none",
     get_data_calls |-> 0, get_endpoint_calls |-> 0,
     posts |-> <<>>, response |-> [kind |-> "none"]]

\* import of the module: line 3 asks results_manager for the name `result`
ImportRunPredictions ==
    /\ run.pc = "start"
    /\ IF run.has_result_name
       THEN /\ run' = [run EXCEPT !.pc = "imported"]
            /\ ret' = Ret("import", None, TRUE, NoExc, None)
       ELSE /\ run' = [run EXCEPT !.pc = "import_failed"]
            /\ ret' = Ret("import", None, FALSE, [type |-> "ImportError"], None)
    /\ UNCHANGED <<regVars, predVars, docVars, first, res, made>>

\* RunPrediction(model, dataset), for a model.model_type, the value of
\* dataset.get_data() and the value of model.get_endpoint()
NewRunPrediction ==
    /\ run.pc = "imported"
    /\ \E model_type \in MODEL_CALLERS \cup {"mock"},
          payload \in {"payload-1", "payload-2", "payload-3"},
          endpoint \in {"http://test-endpoint", "http://other-endpoint"} :
          IF model_type \notin MODEL_CALLERS
          THEN /\ run' = [run EXCEPT !.pc = "rejected", !.model_type = model_type]
               /\ ret' = Ret("RunPrediction", model_type, FALSE,
                             [type |-> "ValueError"], None)
          ELSE /\ run' = [run EXCEPT !.pc = "constructed",
                                     !.model_type = model_type,
                                     !.payload = payload,
                                     !.endpoint = endpoint]
               /\ ret' = Ret("RunPrediction", model_type, TRUE, NoExc, None)
    /\ UNCHANGED <<regVars, predVars, docVars, first, res, made>>

\* the owner assigns model_name and api_key on prediction.model_caller, which
\* _get_model_caller built with no arguments
ConfigureCaller ==
    /\ run.pc = "constructed"
    /\ ~run.configured
    /\ run' = [run EXCEPT !.configured = TRUE]
    /\ UNCHANGED <<ret, regVars, predVars, docVars, first, res, made>>

\* execute(): test_data = self.dataset.get_data()
ExecuteGetData ==
    /\ run.pc = "constructed"
    /\ run' = [run EXCEPT !.pc = "got_data",
                          !.test_data = run.payload,
                          !.get_data_calls = @ + 1]
    /\ UNCHANGED <<ret, regVars, predVars, docVars, first, res, made>>

\* execute(): get_endpoint(), then call_model builds the request and posts it;
\* reading self.model_name on a caller without that attribute raises before
\* requests.post is reached
ExecuteCallModel ==
    /\ run.pc = "got_data"
    /\ IF ~run.configured
       THEN /\ run' = [run EXCEPT !.pc = "done", !.get_endpoint_calls = @ + 1]
            /\ ret' = Ret("execute", None, FALSE,
                          [type |-> "AttributeError"], None)
       ELSE /\ run' = [run EXCEPT
                         !.pc = "posted",
                         !.get_endpoint_calls = @ + 1,
                         !.posts = Append(@,
                             [url |-> run.endpoint,
                              body |-> RequestBody(run.model_type, "gpt-4",
                                                   run.test_data),
                              headers |-> RequestHeaders(run.model_type, "sk-1")])]
            /\ UNCHANGED ret
    /\ UNCHANGED <<regVars, predVars, docVars, first, res, made>>

\* the POST completes or fails, and execute returns or raises
ExecuteReceive ==
    /\ run.pc = "posted"
    /\ \E o \in HttpOutcomes :
          LET r == ExecuteOutcome(o)
          IN  /\ run' = [run EXCEPT !.pc = "done", !.response = o]
              /\ ret' = Ret("execute", None, r.ok, r.exc, r.value)
    /\ UNCHANGED <<regVars, predVars, docVars, first, res, made>>

InitRun ==
    /\ impl = [k \in ProviderKeys |-> "ok"]
    /\ InitRegistry
    /\ ret = NoRet
    /\ PredictIdle
    /\ first = NoFirst
    /\ res = [predictions |-> [t |-> "none"], file |-> [exists |-> FALSE],
              loaded |-> [t |-> "none"]]
    /\ made = [exists |-> FALSE]
    /\ report = [pc |-> "idle"]
    /\ mmlu = [pc |-> "idle"]
    /\ run \in {RunStart(b) : b \in BOOLEAN}

NextRun ==
    \/ ImportRunPredictions
    \/ NewRunPrediction
    \/ ConfigureCaller
    \/ ExecuteGetData
    \/ ExecuteCallModel
    \/ ExecuteReceive

SpecRun == InitRun /\ [][NextRun]_vars

-----------------------------------------------------------------------------
(* actions/generate_reports.py *)

\* The data handed to validate_data_format: a dict, a list of one item, or a
\* well-formed categorical item followed by one item.  An item is a str or a
\* dict whose "name", "type" and "models" values are Python values, t =
\* "absent" standing for a missing key; a "models" dict has at most one entry.
ReportData ==
    LET int == [t |-> "int", n |-> 98]
        absent == [t |-> "absent"]
        labels == {PDict(<<<<k, v>>>>) :
                     k \in {PText("accurate"), int},
                     v \in {[t |-> "int", n |-> 4], PText("many")}}
        values == {int, [t |-> "float"], [t |-> "bool", b |-> TRUE],
                   PText("high"), PDict(<<>>)} \cup labels
        modelsDicts == {absent, PSeq("list", <<>>), PDict(<<>>)}
                     \cup {PDict(<<<<k, v>>>>) :
                             k \in {PText("gpt-3"), int}, v \in values}
        items == {PText("item")}
                    \cup {[t |-> "dict", name |-> n, type |-> ty, models |-> m] :
                            n \in {absent, PText("usability_gap"), int},
                            ty \in {absent, PText("categorical"),
                                    PText("numerical"), PText("ordinal"), int},
                            m \in modelsDicts}
        good == [t |-> "dict", name |-> PText("usability_gap"),
                 type |-> PText("categorical"),
                 models |-> PDict(<<<<PText("gpt-4"),
                                      PDict(<<<<PText("accurate"),
                                               [t |-> "int", n |-> 4]>>>>)>>>>)]
    IN  {PDict(<<>>)} \cup {PSeq("list", <<x>>) : x \in items}
            \cup {PSeq("list", <<good, x>>) : x \in items}

\* the checks of the for loop's body, in the order of the source; the result
\* is the message of the ValueError raised, "" when the item passes
ValidateItem(item) ==
    LET number(v) == v.t \in {"int", "float", "bool"}
        badLabels(v) ==
            IF \E n \in 1..Len(v.pairs) : v.pairs[n][1].t # "str"
            THEN "Each key in the labels dictionary must be a string."
            ELSE IF \E n \in 1..Len(v.pairs) : ~number(v.pairs[n][2])
            THEN "Each value in the labels dictionary must be an int or float."
            ELSE ""
        badEntry(e) ==
            IF e[1].t # "str"
            THEN "Each key in 'models' must be a string representing a model name."
            ELSE IF ~(number(e[2]) \/ e[2].t = "dict")
            THEN "Each value in 'models' must be an int, float, or dictionary."
            ELSE IF e[2].t = "dict" THEN badLabels(e[2])
            ELSE ""
    IN  IF item.t # "dict"
        THEN "Each item in data must be a dictionary."
        ELSE IF item.name.t # "str"
        THEN "Each item must have a 'name' key with a string value."
        ELSE IF item.type.t # "str"
        THEN "Each item must have a 'type' key with a string value."
        ELSE IF item.type.s \notin {"categorical", "numerical"}
        THEN "The 'type' must be either 'categorical' or 'numerical'."
        ELSE IF item.models.t # "dict"
        THEN "Each item must have a 'models' key with a dictionary value."
        ELSE IF \E n \in 1..Len(item.models.pairs) :
                    badEntry(item.models.pairs[n]) # ""
        THEN badEntry(item.models.pairs[
                 CHOOSE n \in 1..Len(item.models.pairs) :
                     /\ badEntry(item.models.pairs[n]) # ""
                     /\ \A m \in 1..(n - 1) : badEntry(item.models.pairs[m]) = ""])
        ELSE ""

\* validate_data_format(data): True, or the ValueError of the first item
\* that fails
ValidateDataFormat(data) ==
    IF data.t # "list"
    THEN [ok |-> FALSE,
          exc |-> [type |-> "ValueError", message |-> "Data must be a list."]]
    ELSE IF \E n \in 1..Len(data.items) : ValidateItem(data.items[n]) # ""
    THEN [ok |-> FALSE,
          exc |-> [type |-> "ValueError",
                   message |-> ValidateItem(data.items[
                       CHOOSE n \in 1..Len(data.items) :
                           /\ ValidateItem(data.items[n]) # ""
                           /\ \A m \in 1..(n - 1) :
                                  ValidateItem(data.items[m]) = ""])]]
    ELSE [ok |-> TRUE, exc |-> NoExc]

\* generate_report(data): validate, then the two plots, then the PDF, which
\* removes the plot files.  Both plot functions call a dict method (values,
\* items) on every models value of a categorical item.
GenerateReport(data) ==
    LET v == ValidateDataFormat(data)
        notADict ==
            \E n \in 1..Len(data.items) :
                /\ data.items[n].type.s = "categorical"
                /\ \E k \in 1..Len(data.items[n].models.pairs) :
                       data.items[n].models.pairs[k][2].t # "dict"
    IN  IF ~v.ok
        THEN [ok |-> FALSE, exc |-> v.exc, plots |-> 0, pdf |-> FALSE]
        ELSE IF notADict
        THEN [ok |-> FALSE, exc |-> [type |-> "AttributeError", message |-> ""],
              plots |-> 0, pdf |-> FALSE]
        ELSE [ok |-> TRUE, exc |-> NoExc, plots |-> 2, pdf |-> TRUE]

\* a caller invokes validate_data_format(data)
CallValidateDataFormat ==
    /\ report.pc = "start"
    /\ LET r == ValidateDataFormat(report.data)
       IN  /\ ret' = Ret("validate_data_format", None, r.ok, r.exc, None)
           /\ report' = [report EXCEPT !.pc = "validated"]
    /\ UNCHANGED <<regVars, predVars, first, res, made, run, mmlu>>

\* a caller invokes generate_report(data)
CallGenerateReport ==
    /\ report.pc \in {"start", "validated"}
    /\ LET r == GenerateReport(report.data)
       IN  /\ ret' = Ret("generate_report", None, r.ok, r.exc, None)
           /\ report' = [report EXCEPT !.pc = "done", !.plots = r.plots,
                                       !.pdf = r.pdf]
    /\ UNCHANGED <<regVars, predVars, first, res, made, run, mmlu>>

InitReport ==
    /\ impl = [k \in ProviderKeys |-> "ok"]
    /\ InitRegistry
    /\ ret = NoRet
    /\ PredictIdle
    /\ first = NoFirst
    /\ res = [predictions |-> [t |-> "none"], file |-> [exists |-> FALSE],
              loaded |-> [t |-> "none"]]
    /\ made = [exists |-> FALSE]
    /\ run = [pc |-> "idle"]
    /\ mmlu = [pc |-> "idle"]
    /\ report \in {[pc |-> "start", data |-> d, plots |-> 0, pdf |-> FALSE] :
                      d \in ReportData}

NextReport ==
    \/ CallValidateDataFormat
    \/ CallGenerateReport

SpecReport == InitReport /\ [][NextReport]_vars

-----------------------------------------------------------------------------
(* evaluation_datasets/dataset_mmlu.py *)

\* generate_prompt(example): the example with its "prompt" and
\* "system_prompt" keys set
GeneratePrompt(example, system_promt) ==
    LET RECURSIVE Join(_)
        Join(parts) ==
            IF parts = <<>> THEN ""
            ELSE IF Len(parts) = 1 THEN parts[1]
            ELSE parts[1] \o "\n" \o Join(Tail(parts))
    IN  [question |-> example.question,
         choices |-> example.choices,
         prompt |-> "Question: " \o example.question \o "\nOptions:\n"
                        \o Join(example.choices)
                        \o "\nAnswer with the correct option (A, B, C, or D).",
         system_prompt |-> system_promt]

\* what load_dataset("cais/mmlu", "all")["test"] gives, and the argument of
\* the constructor.  The split is a list of dict objects (kind "list"), a
\* table that builds a new dict for a row each time it is iterated (kind
\* "rows"), or the call raises.
MmluStart ==
    LET examples == {[question |-> "Capital of France?",
                      choices |-> <<"London", "Paris">>],
                     [question |-> "Closest planet?", choices |-> <<"Venus">>],
                     [question |-> "Closest planet?", choices |-> <<>>]}
        prompts == {"", "You are an expert academic assistant", "Be brief"}
    IN  {[pc |-> "new", kind |-> kind, entries |-> entries,
          system_prompts |-> sp, built |-> <<>>, inputs |-> <<>>] :
            kind \in {"list", "rows", "error"},
            entries \in SeqsOver(examples, MaxItems),
            sp \in SeqsOver(prompts, MaxItems)}

\* MMLUDataset(system_prompts): super().__init__, the assignment of
\* system_prompts and load()
MmluLoad ==
    /\ mmlu.pc = "new"
    /\ IF mmlu.kind = "error"
       THEN /\ mmlu' = [mmlu EXCEPT !.pc = "failed", !.entries = <<>>]
            /\ ret' = Ret("MMLUDataset", mmlu.system_prompts, FALSE,
                          [type |-> "RuntimeError"], None)
       ELSE /\ mmlu' = [mmlu EXCEPT !.pc = "preprocess"]
            /\ ret' = NoRet
    /\ UNCHANGED <<regVars, predVars, first, res, made, run, report>>

\* one element of preprocess()'s comprehension: _preprocess_entries for the
\* next system prompt.  generate_prompt writes into the dict it is given and
\* returns that dict: when the entries are a list of dicts, these are the
\* dicts of self.entries and of every list built before, which all show the
\* new values; when each iteration builds the rows anew they are new dicts.
MmluPreprocessEntries ==
    /\ mmlu.pc = "preprocess"
    /\ Len(mmlu.built) < Len(mmlu.system_prompts)
    /\ LET item == mmlu.system_prompts[Len(mmlu.built) + 1]
           processed == [n \in 1..Len(mmlu.entries) |->
                            GeneratePrompt(mmlu.entries[n], item)]
       IN  IF mmlu.kind = "list"
           THEN mmlu' = [mmlu EXCEPT
                           !.entries = processed,
                           !.built = [k \in 1..(Len(mmlu.built) + 1) |->
                                         processed]]
           ELSE mmlu' = [mmlu EXCEPT !.built = Append(mmlu.built, processed)]
    /\ UNCHANGED <<regVars, predVars, ret, first, res, made, run, report>>

\* self.inputs = [...] and the constructor returns
MmluPreprocessDone ==
    /\ mmlu.pc = "preprocess"
    /\ Len(mmlu.built) = Len(mmlu.system_prompts)
    /\ mmlu' = [mmlu EXCEPT !.pc = "done", !.inputs = mmlu.built,
                            !.built = <<>>]
    /\ ret' = Ret("MMLUDataset", mmlu.system_prompts, TRUE, NoExc, None)
    /\ UNCHANGED <<regVars, predVars, first, res, made, run, report>>

InitMmlu ==
    /\ impl = [k \in ProviderKeys |-> "ok"]
    /\ InitRegistry
    /\ ret = NoRet
    /\ PredictIdle
    /\ first = NoFirst
    /\ res = [predictions |-> [t |-> "none"], file |-> [exists |-> FALSE],
              loaded |-> [t |-> "none"]]
    /\ made = [exists |-> FALSE]
    /\ run = [pc |-> "idle"]
    /\ report = [pc |-> "idle"]
    /\ mmlu \in MmluStart

NextMmlu ==
    \/ MmluLoad
    \/ MmluPreprocessEntries
    \/ MmluPreprocessDone

SpecMmlu == InitMmlu /\ [][NextMmlu]_vars

-----------------------------------------------------------------------------
(* Properties *)

SupportedTasks == {TEXT_GENERATION, VISUAL_QA}

FailedOutcomes == {"create_failed", "enum_failed", "register_failed"}

\* the models a loaded provider enumerates
EnumeratedBy(inst) == {m \in SeqToSet(GetModels(inst).list) : m.is_model}

C2_ConstructionNeverRaisesEmptyWhenAllFail ==
    /\ pc # "failed"
    /\ (pc = "ready" /\ \A k \in cache.value : outcome[k] \in FailedOutcomes)
           => GetAvailableProviders = {}

\* C3: after construction, a provider whose loading raised is not in the
\* providers mapping and none of its models is in the models mapping.
C3_FailedProviderContributesNothing ==
    pc = "ready" =>
        \A k \in ProviderKeys :
            outcome[k] \in FailedOutcomes =>
                /\ \A n \in 1..Len(providers) : providers[n][2].key # k
                /\ \A n \in 1..Len(models) : models[n][2].provider # k

\* C4: when Model.predict returns, the provider was called with the model's
\* own name, the model's bound task and the inputs as a list in the caller's
\* order; one vendor call was made per input; a single input yields the one
\* output for it (not a list) and a list of n inputs yields the list of the n
\* outputs, the n-th being the output for the n-th input.
C4_ModelPredictDelegatesAndUnwraps ==
    (ret.op = "model.predict" /\ ret.ok) =>
        LET c == ret.arg
            d == ret.arg.input
        IN  /\ c.model_name = c.model.model_name
            /\ c.task = c.model.capability.supported_task
            /\ d.kind \in {"item", "list"}
            /\ c.inputs = d.items
            /\ Len(log) = Len(d.items)
            /\ \A n \in 1..Len(log) :
                  log[n].item = n /\ log[n].payload.model = c.model_name
            /\ d.kind = "item" =>
                  /\ ret.value.type = "str"
                  /\ ret.value.items = <<log[1].content>>
            /\ d.kind = "list" =>
                  /\ ret.value.type = "list"
                  /\ Len(ret.value.items) = Len(d.items)
                  /\ \A n \in 1..Len(d.items) :
                        ret.value.items[n] = log[n].content

\* Model.predict returned for a single input, and for a list of two inputs
\* with different outputs
C4_WitnessSingle ==
    ret.op = "model.predict" /\ ret.ok /\ ret.arg.input.kind = "item"

C4_Witness ==
    /\ ret.op = "model.predict"
    /\ ret.ok
    /\ ret.arg.input.kind = "list"
    /\ Len(ret.value.items) >= 2
    /\ ret.value.items[1] # ret.value.items[2]

\* what each handler requires of an item
WellFormed(task, item) ==
    /\ item.type = "dict"
    /\ task = TEXT_GENERATION => item.messages \in {"chat", "parts"}
    /\ task = VISUAL_QA =>
          \/ item.messages = "parts" /\ item.image_part
          \/ item.messages = "absent" /\ item.image

\* C5: for a supported task, a list of n well-formed inputs whose vendor
\* calls all succeed makes OpenaiProvider.predict return, and whenever it
\* returns the result is a list of exactly n outputs, the n-th being the text
\* of the response to the call shaped from the n-th input.
C5_ProviderPredictOnePerInputInOrder ==
    ret.op = "provider.predict" /\ ret.arg.task \in SupportedTasks =>
        LET c == ret.arg
        IN  /\ ret.ok =>
                  /\ ret.value.type = "list"
                  /\ Len(ret.value.items) = Len(c.inputs)
                  /\ Len(log) = Len(c.inputs)
                  /\ \A n \in 1..Len(c.inputs) :
                        /\ log[n].item = n
                        /\ log[n].payload.from = c.inputs[n]
                        /\ log[n].outcome = "ok"
                        /\ ret.value.items[n] = log[n].content
            /\ ~ret.ok =>
                  \/ \E n \in 1..Len(c.inputs) : ~WellFormed(c.task, c.inputs[n])
                  \/ \E n \in 1..Len(log) : log[n].outcome # "ok"

\* a batch of well-formed inputs returned outputs that differ by position
C5_Witness ==
    /\ ret.op = "provider.predict"
    /\ ret.ok
    /\ Len(ret.arg.inputs) >= 3
    /\ \A n \in 1..Len(ret.arg.inputs) :
          WellFormed(ret.arg.task, ret.arg.inputs[n])
    /\ ret.value.items[1] # ret.value.items[2]

\* C6: create_provider with a name outside get_supported_providers() fails
\* with the not-supported ValueError that names the provider and lists the
\* supported set; it imports no module and instantiates no provider.
C6_UnsupportedNameRejectedBeforeImport ==
    (ret.op = "create_provider" /\ ret.arg[1] \notin cache.value) =>
        /\ ~ret.ok
        /\ ret.exc.type = "ValueError"
        /\ ret.exc.kind = "not_supported"
        /\ ret.exc.provider = ret.arg[1]
        /\ ret.exc.supported = cache.value
        /\ ~ret.value.imported
        /\ ~ret.value.instantiated

\* create_provider was called with a name that is not supported while other
\* providers are
C6_Witness ==
    /\ ret.op = "create_provider"
    /\ ret.arg[1] = "invalid"
    /\ cache.value # {}

\* C7: is_provider_available never raises, and returns TRUE exactly when
\* the trial creation with the default configuration succeeds.
C7_AvailabilityNeverRaises ==
    ret.op = "is_provider_available" =>
        /\ ret.ok
        /\ ret.value = CreateProvider(ret.arg, None).ok

\* C8: OpenaiProvider.predict with a task other than text generation or
\* visual QA fails with the task-unsupported ValueError naming the task and
\* the model, whatever the inputs, and no vendor call is issued.
C8_UnsupportedTaskRaisesWithoutCall ==
    /\ call.active => call.task \in SupportedTasks
    /\ (ret.op = "provider.predict" /\ ret.arg.task \notin SupportedTasks) =>
          /\ ~ret.ok
          /\ ret.exc.type = "ValueError"
          /\ ret.exc.kind = "task_unsupported"
          /\ ret.exc.task = ret.arg.task
          /\ ret.exc.model = ret.arg.model_name
          /\ log = <<>>

\* predict was called for image generation with a non-empty batch
C8_Witness ==
    /\ ret.op = "provider.predict"
    /\ ret.arg.task = IMAGE_GENERATION
    /\ Len(ret.arg.inputs) >= 2

\* C9: no vendor call is issued for an item that lacks the field its task
\* requires: messages for text generation, image data for visual QA.
C9_NoCallForItemLackingRequiredField ==
    \A n \in 1..Len(log) :
        LET item == log[n].payload.from
        IN  /\ log[n].handler = "text" => item.messages # "absent"
            /\ log[n].handler = "visual" =>
                  \/ item.messages = "parts" /\ item.image_part
                  \/ item.messages = "absent" /\ item.image

\* C10: a predict call whose handling of some item failed ends with an error
\* and no output list, for the caller of OpenaiProvider.predict and of
\* Model.predict alike; a call that returns has an output for every input.
C10_FullBatchOrError ==
    ret.op \in {"provider.predict", "model.predict"} =>
        LET c == ret.arg
            itemFailed ==
                \/ \E n \in 1..Len(log) :
                      log[n].outcome \in {"transport_error", "no_choices"}
                \/ /\ Handler(c.task) # "none"
                   /\ Len(log) < Len(c.inputs)
        IN  /\ itemFailed => ~ret.ok
            /\ ~ret.ok => ret.value.type = "none" /\ ret.exc.type # "none"
            /\ ret.ok =>
                  /\ Len(log) = Len(c.inputs)
                  /\ \A n \in 1..Len(log) : log[n].outcome = "ok"
                  /\ ret.value.type = "list" =>
                        Len(ret.value.items) = Len(c.inputs)
                  /\ ret.value.type # "list" =>
                        ret.value.type = "str" /\ Len(c.inputs) = 1

\* Model.predict raised after an earlier item of the batch had succeeded
C10_Witness ==
    /\ ret.op = "model.predict"
    /\ ~ret.ok
    /\ Len(log) >= 2
    /\ log[1].outcome = "ok"

\* C11: get_available_providers() returns exactly the provider names, as
\* get_supported_providers() produced them and create_provider received
\* them, whose loading succeeded.
C11_AvailableProvidersAreLoadedNames ==
    (pc = "ready" /\ ret.op = "get_available_providers") =>
        ret.value = {k \in ProviderKeys : outcome[k] = "loaded"}

\* the models enumerated by the providers of the providers mapping
LoadedModels == UNION {EnumeratedBy(inst) : inst \in SeqToSet(DictValues(providers))}

C13_FindModelsNoMatchReturnsEmpty ==
    (/\ pc = "ready"
     /\ ret.op = "find_models"
     /\ \A m \in LoadedModels : m.capability.supported_task # ret.arg)
        => ret.ok /\ ret.value = <<>>

\* values made of None, bool, int, str, lists and dicts with str keys only
RECURSIVE JsonShaped(_)
JsonShaped(v) ==
    CASE v.t \in {"none", "bool", "int", "str"} -> TRUE
      [] v.t = "list" -> \A n \in 1..Len(v.items) : JsonShaped(v.items[n])
      [] v.t = "dict" ->
            \A n \in 1..Len(v.pairs) :
                v.pairs[n][1].t = "str" /\ JsonShaped(v.pairs[n][2])
      [] OTHER -> FALSE

CatalogPairs ==
    UNION {{<<entry.model_name, task>> : task \in SeqToSet(entry.task_support)} :
              entry \in SeqToSet(ListAvailableModels)}

\* C15: OpenaiProvider.get_models() returns one Model per (model_name, task)
\* pair of the catalog, so an entry that lists k tasks yields k Models.
C15_OneModelPerNameTaskPair ==
    ret.op = "get_models" =>
        /\ Len(ret.value) = Cardinality(CatalogPairs)
        /\ \A pair \in CatalogPairs :
              \E n \in 1..Len(ret.value) :
                  /\ ret.value[n].model_name = pair[1]
                  /\ ret.value[n].capability.supported_task = pair[2]

\* C16: the providers directory is scanned at most once per process, and
\* every call of get_supported_providers() returns a set equal to what the
\* first call returned, whatever happened to the provider files and to the
\* sets returned earlier.
C16_MemoizedResultNeverChanges ==
    /\ scans <= 1
    /\ (ret.op = "get_supported_providers" /\ first.set)
          => ret.value = first.value

\* C17: create_provider for a supported name whose module cannot be imported
\* raises the missing-dependency ImportError that names the provider and
\* returns no instance; for a supported name whose module imports it returns
\* an instance built from the config mapping, api_key included.
C17_ImportErrorOrInstanceFromConfig ==
    (/\ pc \in {"new", "ready"}
     /\ ret.op = "create_provider"
     /\ ret.arg[1] \in cache.value)
        => IF KindOf(ret.arg[1]) = "import_error"
           THEN /\ ~ret.ok
                /\ ret.exc.type = "ImportError"
                /\ ret.exc.kind = "missing_dependency"
                /\ ret.exc.provider = ret.arg[1]
                /\ ~ret.value.instantiated
           ELSE /\ ret.ok
                /\ ret.value.instance.key = ret.arg[1]
                /\ ret.value.instance.api_key =
                      (IF ret.arg[2] = None THEN EmptyConfig ELSE ret.arg[2]).api_key

\* a capability that is present and bound to a TaskType member
ValidCapability(c) ==
    /\ c # None
    /\ c # Omitted
    /\ c.supported_task \in TaskType

\* C18: constructing a Model whose capability is missing or whose
\* supported_task is not a TaskType member fails, and every Model that exists
\* has a supported_task in TaskType.
C18_InvalidCapabilityRejected ==
    /\ (ret.op = "Model" /\ ~ValidCapability(ret.arg.capability)) => ~ret.ok
    /\ made.exists => ValidCapability(made.model.capability)

C20_ExecuteOnePostResultReturned ==
    run.pc = "done" =>
        /\ run.get_data_calls = 1
        /\ run.get_endpoint_calls = 1
        /\ Len(run.posts) = 1
        /\ run.posts[1].url = run.endpoint
        /\ run.posts[1].body.value = run.payload
        /\ run.response.kind = "ok" =>
              /\ ret.ok
              /\ ret.value = Result(run.response.json)

WellTypedReport(data) ==
    /\ data.t = "list"
    /\ \A n \in 1..Len(data.items) :
          LET item == data.items[n]
          IN  /\ item.t = "dict"
              /\ item.name.t = "str"
              /\ item.type.t = "str"
              /\ item.type.s \in {"categorical", "numerical"}
              /\ item.models.t = "dict"
              /\ \A k \in 1..Len(item.models.pairs) :
                    LET key == item.models.pairs[k][1]
                        value == item.models.pairs[k][2]
                    IN  /\ key.t = "str"
                        /\ IF item.type.s = "numerical"
                           THEN value.t \in {"int", "float"}
                           ELSE /\ value.t = "dict"
                                /\ \A j \in 1..Len(value.pairs) :
                                      /\ value.pairs[j][1].t = "str"
                                      /\ value.pairs[j][2].t \in {"int", "float"}

\* C22: every value that validate_data_format accepts is a list of records
\* of type categorical or numerical whose models values match the type, and
\* generate_report rejects any other value with the validation error before
\* a plot or a document exists.
C22_AcceptedReportDataIsWellTyped ==
    /\ (ret.op = "validate_data_format" /\ ret.ok)
          => WellTypedReport(report.data)
    /\ (ret.op = "generate_report" /\ ~WellTypedReport(report.data))
          => /\ ~ret.ok
             /\ ret.exc.type = "ValueError"
             /\ report.plots = 0
             /\ ~report.pdf

\* C23: within one OpenaiProvider.predict call the vendor calls are issued
\* in input order, one per item, the call for an item only once every
\* earlier call has been answered, so at most one call is in flight; a batch
\* of n items that succeeds has issued exactly n calls.
C23_VendorCallsSequentialInInputOrder ==
    /\ \A n \in 1..Len(log) :
          /\ log[n].item = n
          /\ n < Len(log) => log[n].outcome = "ok"
          /\ log[n].outcome = "pending" => (inflight /\ call.active /\ i = n)
    /\ inflight => (log # <<>> /\ log[Len(log)].outcome = "pending")
    /\ (ret.op = "provider.predict" /\ ret.ok) =>
          Len(log) = Len(ret.arg.inputs)

\* a batch of three items succeeded
C23_Witness ==
    /\ ret.op = "provider.predict"
    /\ ret.ok
    /\ Len(ret.arg.inputs) = 3
    /\ Len(log) = 3

\* C24: every iteration of the constructor's loop over the providers leaves
\* the models mapping as last-write-wins registration requires: a provider
\* that loaded has, under each name it enumerates, the last Model it
\* enumerates with that name, every other name keeps the Model it had, and
\* a provider that failed to load adds no name; so after construction the
\* key set is the set of names enumerated by the providers that loaded.
C24_LastRegistrationWins ==
    [][pc = "loading" =>
        LET key == Head(todo)
            inst == [key |-> key, name |-> ProviderName(key),
                     api_key |-> ConfigGet(config, key).api_key,
                     is_provider |-> TRUE]
            list == GetModels(inst).list
            names == {list[n].model_name : n \in 1..Len(list)}
        IN  IF outcome'[key] = "loaded"
            THEN /\ DictKeys(models') = DictKeys(models) \cup names
                 /\ \A n \in 1..Len(list) :
                       (\A k \in (n + 1)..Len(list) :
                            list[k].model_name # list[n].model_name)
                           => DictGet(models', list[n].model_name) = list[n]
                 /\ \A name \in DictKeys(models) \ names :
                       DictGet(models', name) = DictGet(models, name)
            ELSE models' = models]_vars

\* C25: once the constructor has returned, no call on the registry and no
\* change a caller makes to a set or list it was handed changes the
\* providers mapping or the models mapping, and every query returns after
\* such a change what it returned before it.
C25_RegistryReadOnlyAfterConstruction ==
    [][pc = "ready" =>
          /\ providers' = providers
          /\ models' = models
          /\ ret'.op = "mutated" =>
                /\ GetAvailableProviders' = GetAvailableProviders
                /\ GetSupportedTasks' = GetSupportedTasks
                /\ \A task \in TaskType :
                      FindModels(task)' = FindModels(task)]_vars

\* a caller emptied the list find_models returned, which held models of two
\* providers
C25_Witness ==
    /\ pc = "ready"
    /\ ret.op = "mutated"
    /\ ret.arg = "find_models"
    /\ Len(providers) = 2
    /\ models # EmptyDict

\* C26: every Model that OpenaiProvider.get_models() returns is bound to a
\* task that OpenaiProvider.predict dispatches, and predict on such a Model
\* never ends with the task-unsupported error.
C26_EnumeratedTasksAreDispatched ==
    /\ ret.op = "get_models" =>
          \A n \in 1..Len(ret.value) :
              Handler(ret.value[n].capability.supported_task) # "none"
    /\ (ret.op = "model.predict" /\ ~ret.ok) =>
          ~(ret.exc.type = "ValueError" /\ ret.exc.kind = "task_unsupported")

\* predict on the enumerated Model bound to visual QA returned
C26_Witness ==
    /\ ret.op = "model.predict"
    /\ ret.ok
    /\ ret.arg.model \in SeqToSet(OpenaiGetModels(OpenaiInstance))
    /\ ret.arg.task = VISUAL_QA
    /\ log # <<>>

\* C27: after MMLUDataset construction with system prompts p1..pn over
\* entries e1..em, inputs holds n lists in prompt order; list k holds m
\* processed entries in entry order, the j-th with the prompt built from the
\* question and choices of ej and with system_prompt pk.
C27_InputsPerPromptPerEntry ==
    mmlu.pc = "done" =>
        /\ Len(mmlu.inputs) = Len(mmlu.system_prompts)
        /\ \A k \in 1..Len(mmlu.inputs) :
              /\ Len(mmlu.inputs[k]) = Len(mmlu.entries)
              /\ \A j \in 1..Len(mmlu.entries) :
                    LET e == mmlu.entries[j]
                        p == mmlu.inputs[k][j]
                    IN  /\ p.question = e.question
                        /\ p.choices = e.choices
                        /\ p.prompt = GeneratePrompt(e, "").prompt
                        /\ p.system_prompt = mmlu.system_prompts[k]

\* C28: after construction, the provider that owns a Model of the models
\* mapping is a value of the providers mapping, and find_models for the
\* Model's task returns a list that holds the Model.
C28_RegisteredModelsHaveRegisteredOwner ==
    pc = "ready" =>
        \A n \in 1..Len(models) :
            LET m == models[n][2]
                found == FindModels(m.capability.supported_task)
            IN  /\ \E inst \in SeqToSet(DictValues(providers)) :
                      inst.key = m.provider
                /\ found.ok
                /\ m \in SeqToSet(found.value)

\* the mappings _load_providers leaves when its loop visits `order`
RECURSIVE LoadAll(_, _, _, _)
LoadAll(provs, mods, order, cfg) ==
    IF order = <<>> THEN [providers |-> provs, models |-> mods]
    ELSE LET r == LoadOne(provs, mods, Head(order), cfg)
         IN  LoadAll(r.providers, r.models, Tail(order), cfg)

\* C29: when the constructor's loop ends, the providers mapping and the
\* models mapping are the mappings the loop would have left had it visited
\* the supported provider names in any other order, with the same config.
C29_RegistryIndependentOfIterationOrder ==
    [][(pc = "loading" /\ pc' = "ready") =>
          \A order \in Orderings(cache.value) :
              LET other == LoadAll(EmptyDict, EmptyDict, order, config)
              IN  /\ SeqToSet(other.providers) = SeqToSet(providers')
                  /\ SeqToSet(other.models) = SeqToSet(models')]_vars

\* C30: when OpenaiProvider.predict fails at item k of a batch, because the
\* item cannot be shaped into a request or because its vendor call fails,
\* no vendor call has been issued for an item after k, the call for every
\* item before k was issued exactly once and answered, and the caller gets
\* none of those answers.
C30_BatchedPredictFailsFast ==
    (ret.op = "provider.predict" /\ ~ret.ok /\ Handler(ret.arg.task) # "none") =>
        LET c == ret.arg
            transport == log # <<>> /\ log[Len(log)].outcome # "ok"
            k == IF transport THEN Len(log) ELSE Len(log) + 1
        IN  /\ k \in 1..Len(c.inputs)
            /\ ~transport =>
                  ~ShapeRequest(Handler(c.task), c.model_name, c.inputs[k]).ok
            /\ \A n \in 1..Len(log) : log[n].item = n /\ n <= k
            /\ \A n \in 1..(k - 1) :
                  /\ log[n].outcome = "ok"
                  /\ log[n].payload.from = c.inputs[n]
            /\ ret.value.type = "none"

\* the call for the second of three items failed after the first succeeded
C30_Witness ==
    /\ ret.op = "provider.predict"
    /\ ~ret.ok
    /\ Len(ret.arg.inputs) = 3
    /\ Len(log) = 2
    /\ log[1].outcome = "ok"
    /\ log[2].outcome = "transport_error"

====
